---- MODULE Spec2Model ----
(***************************************************************************)
(* A model of app/main.py: the asyncio combinators run_sequence and        *)
(* run_parallel, the IoTService (register_device, connect, disconnect,     *)
(* send_message), and the orchestration program of main() driven by        *)
(* asyncio.run.                                                            *)
(*                                                                         *)
(* One step of the model is one run of a task by the event loop: from the  *)
(* point where the task was suspended (an asyncio.sleep, an                *)
(* asyncio.gather, or its creation) to its next suspension or its end.     *)
(* The simulated I/O (the asyncio.sleep calls) takes an arbitrary time, so *)
(* suspended tasks resume in any order, and it may raise, which is how a   *)
(* phase of a device interaction fails.                                    *)
(***************************************************************************)
EXTENDS Integers, Sequences, FiniteSets, TLC

VARIABLES
    prog,        \* the tree of coroutine objects handed to asyncio.run
    st,          \* st[n]: where coroutine n is
    devices,     \* IoTService.devices: device name -> Device
    exc,         \* exc[n]: the phase whose await raised in leaf n, or "none"
    trace,       \* trace[n]: the phases leaf n entered and left, in order
    finished,    \* finished[p]: the children of gather p in completion order
    gathered,    \* gathered[p]: the result list of the asyncio.gather of p
    ret,         \* ret[n]: the value coroutine n returned
    loop,        \* the event loop of asyncio.run: "running" or "closed"
    at           \* at[n]: the time, in tenths of a second of sleep since the
                 \* start, at which coroutine n was last scheduled, entered,
                 \* resumed or ended by its task

vars == <<prog, st, devices, exc, trace, finished, gathered, ret, loop, at>>

\* The longest list of children handed to one combinator by the generic programs.
MaxChildren == 3

----------------------------------------------------------------------------
\* Values

NoneVal == [type |-> "NoneType"]
ListVal(items) == [type |-> "list", items |-> items]
Unset == [type |-> "unset"]

\* The Device objects main() creates, in the order of devices_to_register.
DeviceObjects == <<"coffee_machine", "speaker", "smart_toilet">>

\* Device objects a caller of register_device can create besides those of
\* main(): a second Device("Smart Speaker") and a Device("").
OtherDeviceObjects == <<"speaker_twin", "nameless">>

\* Device.name of each object.
Name(d) ==
    CASE d = "coffee_machine" -> "Smart Coffee Machine"
      [] d = "speaker"        -> "Smart Speaker"
      [] d = "smart_toilet"   -> "Smart Toilet"
      [] d = "speaker_twin"   -> "Smart Speaker"
      [] d = "nameless"       -> ""

----------------------------------------------------------------------------
\* Programs: a program is a sequence of nodes, node 1 its root. A node is a
\* coroutine object: a call of main, run_sequence, run_parallel,
\* register_device or send_message with its arguments.

Root == 1

Leaf(kind, dev, msg) == [kind |-> kind, kids |-> <<>>, dev |-> dev, msg |-> msg]
Comb(kind, kids) == [kind |-> kind, kids |-> kids, dev |-> "none", msg |-> ""]

\* main() with the speaker's two commands handed to run_parallel instead of
\* run_sequence.
MainProgramSpeakerParallel ==
    << Comb("main", <<2, 6, 16>>),
       Comb("par", <<3, 4, 5>>),
       Leaf("reg", "coffee_machine", ""),
       Leaf("reg", "speaker", ""),
       Leaf("reg", "smart_toilet", ""),
       Comb("par", <<7, 8, 9>>),
       Comb("par", <<10, 11>>),
       Comb("seq", <<12, 13>>),
       Comb("seq", <<14, 15>>),
       Leaf("send", "speaker", "switch on"),
       Leaf("send", "speaker", "play music"),
       Leaf("send", "coffee_machine", "switch on"),
       Leaf("send", "coffee_machine", "make coffee"),
       Leaf("send", "smart_toilet", "flush"),
       Leaf("send", "smart_toilet", "clean"),
       Comb("par", <<17, 18>>),
       Leaf("send", "speaker", "switch off"),
       Leaf("send", "coffee_machine", "switch off") >>

\* main(): three awaits of run_parallel, one after the other.
MainProgram ==
    << Comb("main", <<2, 6, 16>>),
       Comb("par", <<3, 4, 5>>),
       Leaf("reg", "coffee_machine", ""),
       Leaf("reg", "speaker", ""),
       Leaf("reg", "smart_toilet", ""),
       Comb("par", <<7, 8, 9>>),
       Comb("seq", <<10, 11>>),
       Comb("seq", <<12, 13>>),
       Comb("seq", <<14, 15>>),
       Leaf("send", "speaker", "switch on"),
       Leaf("send", "speaker", "play music"),
       Leaf("send", "coffee_machine", "switch on"),
       Leaf("send", "coffee_machine", "make coffee"),
       Leaf("send", "smart_toilet", "flush"),
       Leaf("send", "smart_toilet", "clean"),
       Comb("par", <<17, 18>>),
       Leaf("send", "speaker", "switch off"),
       Leaf("send", "coffee_machine", "switch off") >>

\* The i-th device, cycling through the device objects.
NthDevice(i) == DeviceObjects[((i - 1) % Len(DeviceObjects)) + 1]

\* One combinator over k send_message coroutines.
Flat(kind, k) ==
    <<Comb(kind, [i \in 1..k |-> i + 1])>> \o
    [i \in 1..k |-> Leaf("send", NthDevice(i), "switch on")]

\* A combinator whose first child is a combinator over two send_message
\* coroutines and whose second child is a send_message coroutine.
Nested(outer, inner) ==
    << Comb(outer, <<2, 5>>),
       Comb(inner, <<3, 4>>),
       Leaf("send", "speaker", "switch on"),
       Leaf("send", "speaker", "play music"),
       Leaf("send", "coffee_machine", "switch on") >>

\* run_parallel over the registrations of two Device objects.
Registrations(d1, d2) ==
    << Comb("par", <<2, 3>>),
       Leaf("reg", d1, ""),
       Leaf("reg", d2, "") >>

\* The Device objects the registration programs draw from.
RegistrationPool == {"speaker", "coffee_machine", "speaker_twin", "nameless"}

CombKinds == {"seq", "par"}

Programs ==
    {MainProgram}
    \cup {Flat(kind, k) : kind \in CombKinds, k \in 0..MaxChildren}
    \cup {Nested(outer, inner) : outer \in CombKinds, inner \in CombKinds}
    \cup UNION {{Registrations(d1, d2) : d2 \in RegistrationPool \ {d1}} :
                    d1 \in RegistrationPool}

Nodes == DOMAIN prog
Kind(n) == prog[n].kind
Kids(n) == prog[n].kids
KidSet(n) == {Kids(n)[i] : i \in DOMAIN Kids(n)}
HasParent(n) == \E p \in Nodes : n \in KidSet(p)
Parent(n) == CHOOSE p \in Nodes : n \in KidSet(p)
Index(n) == CHOOSE i \in DOMAIN Kids(Parent(n)) : Kids(Parent(n))[i] = n

\* A coroutine that asyncio runs as a task of its own: the one handed to
\* asyncio.run, and every child asyncio.gather wraps.
IsTask(n) == n = Root \/ (HasParent(n) /\ Kind(Parent(n)) = "par")

Terminal == {"done", "failed", "cancelled"}
Suspended == {"connecting", "executing", "disconnecting", "registering"}

----------------------------------------------------------------------------
\* run_sequence

\* A loop that steps over a child: it takes child i + 2 after child i.
NextChildSkipping(kids, i) == IF i + 2 <= Len(kids) THEN kids[i + 2] ELSE kids[i + 1]

\* The child `for function in functions` takes after child i returned.
NextChild(kids, i) == kids[i + 1]

\* A run_sequence that swallows a child's exception and goes on.
SeqAfterChildFailSoft(o, i, len) == IF i < len THEN "next" ELSE "return"

\* What run_sequence does when `await function` of child i of len ends with
\* outcome o: a raised exception leaves the loop and the coroutine.
SeqAfterChild(o, i, len) ==
    IF o # "done" THEN "raise"
    ELSE IF i < len THEN "next" ELSE "return"

\* A main that catches the exception of a phase and goes on to the next.
MainAfterAwaitIgnoringFailure(o, i, len) == IF i < len THEN "next" ELSE "return"

\* What main does when its i-th `await run_parallel(...)` ends with outcome o.
MainAfterAwait(o, i, len) ==
    IF o # "done" THEN "raise"
    ELSE IF i < len THEN "next" ELSE "return"

----------------------------------------------------------------------------
\* send_message

\* A send_message that looks its device up and goes on only when the
\* registry holds it.
ResolvesWhenRegistered(d, reg) == Name(d) \in DOMAIN reg

\* Whether send_message goes on to connect to device d with registry reg: it
\* is handed the Device object and never reads self.devices.
Resolves(d, reg) == TRUE

\* A send_message that drops its device from the registry on disconnect.
RegistryAfterPhaseUnregistering(reg, d, ph) ==
    IF ph = "disconnecting"
    THEN [k \in DOMAIN reg \ {Name(d)} |-> reg[k]]
    ELSE reg

\* self.devices after the await of phase ph of a send_message to device d
\* returned: connect, send_message and disconnect do not touch it.
RegistryAfterPhase(reg, d, ph) == reg

\* A send_message that goes from connect straight to disconnect.
AfterPhaseSkippingExecute(ph) ==
    CASE ph = "connecting"    -> "disconnecting"
      [] ph = "executing"     -> "disconnecting"
      [] ph = "disconnecting" -> "done"

\* The await send_message is suspended in after the await of phase ph returned.
AfterPhase(ph) ==
    CASE ph = "connecting"    -> "executing"
      [] ph = "executing"     -> "disconnecting"
      [] ph = "disconnecting" -> "done"

\* A send_message that catches the exception of a phase and returns.
AfterRaiseCaught(ph) == "done"

\* A send_message whose cleanup also runs when connect raised.
AfterRaiseDisconnecting(ph) == IF ph = "connecting" THEN "disconnecting" ELSE "failed"

\* Where send_message is after the await of phase ph raised: it has no
\* try/except/finally, so the exception leaves it.
AfterRaise(ph) == "failed"

PhaseName(ph) ==
    CASE ph = "connecting"    -> "connect"
      [] ph = "executing"     -> "execute"
      [] ph = "disconnecting" -> "disconnect"
      [] ph = "registering"   -> "register"

----------------------------------------------------------------------------
\* register_device

\* A register_device that refuses a device with an empty name.
AcceptsNamed(d) == Name(d) # ""

\* Whether register_device goes on to register device d: it checks nothing.
Accepts(d) == TRUE

\* A register_device that writes back a registry holding only its own device.
StoreReplacing(reg, d) == [k \in {Name(d)} |-> d]

\* self.devices[device.name] = device
Store(reg, d) ==
    [k \in DOMAIN reg \cup {Name(d)} |-> IF k = Name(d) THEN d ELSE reg[k]]

----------------------------------------------------------------------------
\* run_parallel

\* A run_parallel that returns what asyncio.gather returned.
RunParallelReturnsResults(results) == results

\* The value run_parallel returns once asyncio.gather returned results.
RunParallelReturn(results) == NoneVal

\* A gather that makes a task of its first child only.
GatherStartsFirstOnly(kids) == {kids[1]}

\* The children asyncio.gather makes tasks of, before any of them runs: all.
GatherStarts(kids) == {kids[i] : i \in DOMAIN kids}

\* A gather that has its result when the first of its children is done.
GatherHasFirstResult(p) == \E k \in KidSet(p) : st[k] = "done"

\* A gather that counts one child too many and so never has its result.
GatherHasResultsOffByOne(p) ==
    Cardinality({k \in KidSet(p) : st[k] = "done"}) = Len(Kids(p)) + 1

\* asyncio.gather of p sets its result when the last of its children is done.
GatherHasResults(p) == \A k \in KidSet(p) : st[k] = "done"

\* A gather that cancels the children still running when one of them raised.
GatherOnRaiseCancelling(s, p) ==
    [m \in DOMAIN s |->
        IF m \in KidSet(p) /\ s[m] \notin Terminal \cup {"idle"} THEN "cancelled" ELSE s[m]]

\* What asyncio.gather does to the other children when one of them raised:
\* nothing, they keep running.
GatherOnRaise(s, p) == s

----------------------------------------------------------------------------
\* Time: the sleeps, in tenths of a second

RegisterDelay == 10
ConnectDelay == 1
ExecuteDelay == 5
DisconnectDelay == 1

\* The sleep a coroutine suspended in phase ph is in.
Delay(ph) ==
    CASE ph = "registering"   -> RegisterDelay
      [] ph = "connecting"    -> ConnectDelay
      [] ph = "executing"     -> ExecuteDelay
      [] ph = "disconnecting" -> DisconnectDelay

Max(S) == CHOOSE x \in S : \A y \in S : y <= x
Min(S) == CHOOSE x \in S : \A y \in S : x <= y

RECURSIVE SumOfChildren(_, _)
\* The time the first i children of p took, one added to the other.
SumOfChildren(p, i) ==
    IF i = 0 THEN 0 ELSE (at[Kids(p)[i]] - at[p]) + SumOfChildren(p, i - 1)

\* A gather that takes as long as its children would one after the other.
GatherEndTimeSequential(p) == at[p] + SumOfChildren(p, Len(Kids(p)))

\* The time at which asyncio.gather of p has every result: when the last of
\* its children, which all run at the same time, has ended.
GatherEndTime(p) == Max({at[k] : k \in KidSet(p)})

\* The time at which asyncio.gather of p raises: when the first child failed.
GatherRaiseTime(p) == Min({at[k] : k \in {m \in KidSet(p) : st[m] = "failed"}})

\* The step that took the status map from s to t was taken at time now.
Clock(s, t, now) == at' = [n \in Nodes |-> IF s[n] # t[n] THEN now ELSE at[n]]

----------------------------------------------------------------------------
\* Running a task up to its next suspension

RECURSIVE Enter(_, _), Return(_, _, _)

\* Coroutine n starts executing in the running task; s is the status map.
Enter(n, s) ==
    CASE Kind(n) = "send" ->
            IF Resolves(prog[n].dev, devices)
            THEN [s EXCEPT ![n] = "connecting"]
            ELSE Return(n, "failed", s)
      [] Kind(n) = "reg"  ->
            IF Accepts(prog[n].dev)
            THEN [s EXCEPT ![n] = "registering"]
            ELSE Return(n, "failed", s)
      [] Kind(n) \in {"seq", "main"} ->
            IF Kids(n) = <<>>
            THEN Return(n, "done", s)
            ELSE Enter(Kids(n)[1], [s EXCEPT ![n] = "running"])
      [] Kind(n) = "par" ->
            IF Kids(n) = <<>>
            THEN Return(n, "done", s)
            ELSE [m \in DOMAIN s |->
                    IF m = n THEN "running"
                    ELSE IF m \in GatherStarts(Kids(n)) THEN "scheduled"
                    ELSE s[m]]

\* Coroutine n ends with outcome o ("done" or "failed"); the task goes on
\* in whatever awaits n directly.
Return(n, o, s) ==
    LET s1 == [s EXCEPT ![n] = o] IN
    IF IsTask(n) THEN s1
    ELSE LET p == Parent(n)
             i == Index(n)
             a == IF Kind(p) = "main"
                  THEN MainAfterAwait(o, i, Len(Kids(p)))
                  ELSE SeqAfterChild(o, i, Len(Kids(p)))
         IN  CASE a = "next"   -> Enter(NextChild(Kids(p), i), s1)
               [] a = "return" -> Return(p, "done", s1)
               [] a = "raise"  -> Return(p, "failed", s1)

----------------------------------------------------------------------------
\* What a step leaves behind in the history and result variables

\* Leaf n entered connect or register in the step from s to t.
Begun(n, s, t) == s[n] \in {"idle", "scheduled"} /\ t[n] \in {"connecting", "registering"}

\* The step took the status map from s to t; r is the leaf whose await
\* raised in it, or 0.
Record(s, t, r) ==
    /\ exc' = [n \in Nodes |-> IF n = r THEN PhaseName(s[n]) ELSE exc[n]]
    /\ trace' = [n \in Nodes |->
                   IF n = r
                   THEN IF t[n] \in Suspended
                        THEN trace[n] \o <<PhaseName(s[n]) \o "_raised", PhaseName(t[n])>>
                        ELSE Append(trace[n], PhaseName(s[n]) \o "_raised")
                   ELSE IF Begun(n, s, t)
                   THEN Append(trace[n], PhaseName(t[n]))
                   ELSE IF s[n] \in Suspended /\ s[n] # t[n] /\ t[n] = "done"
                   THEN Append(trace[n], PhaseName(s[n]) \o "_ok")
                   ELSE IF s[n] \in Suspended /\ s[n] # t[n] /\ t[n] \in Suspended
                   THEN trace[n] \o <<PhaseName(s[n]) \o "_ok", PhaseName(t[n])>>
                   ELSE trace[n]]
    /\ finished' = [n \in Nodes |->
                   IF Kind(n) = "par"
                   THEN LET new == {k \in KidSet(n) : s[k] # t[k] /\ t[k] \in {"done", "failed"}}
                        IN  IF new = {} THEN finished[n]
                            ELSE Append(finished[n], CHOOSE k \in new : TRUE)
                   ELSE finished[n]]
    /\ gathered' = [n \in Nodes |->
                   IF Kind(n) = "par" /\ s[n] # "done" /\ t[n] = "done"
                   THEN ListVal([i \in DOMAIN Kids(n) |-> ret[Kids(n)[i]]])
                   ELSE gathered[n]]
    /\ ret' = [n \in Nodes |->
                   IF s[n] # "done" /\ t[n] = "done"
                   THEN IF Kind(n) = "par"
                        THEN RunParallelReturn(gathered'[n])
                        ELSE NoneVal
                   ELSE ret[n]]

----------------------------------------------------------------------------
\* The steps

Init ==
    /\ prog \in Programs
    /\ st = [n \in Nodes |-> IF n = Root THEN "scheduled" ELSE "idle"]
    /\ devices = << >>
    /\ exc = [n \in Nodes |-> "none"]
    /\ trace = [n \in Nodes |-> <<>>]
    /\ finished = [n \in Nodes |-> <<>>]
    /\ gathered = [n \in Nodes |-> Unset]
    /\ ret = [n \in Nodes |-> Unset]
    /\ loop = "running"
    /\ at = [n \in Nodes |-> 0]

\* The first step of a task: of the main task asyncio.run created, or of a
\* task asyncio.gather created.
TaskStart(n) ==
    /\ loop = "running"
    /\ st[n] = "scheduled"
    /\ st' = Enter(n, st)
    /\ Record(st, st', 0)
    /\ Clock(st, st', at[n])
    /\ UNCHANGED <<prog, devices, loop>>

\* The await of phase ph of send_message n returns and the task resumes.
PhaseReturns(n, ph) ==
    /\ loop = "running"
    /\ Kind(n) = "send"
    /\ st[n] = ph
    /\ st' = IF AfterPhase(ph) = "done"
             THEN Return(n, "done", st)
             ELSE [st EXCEPT ![n] = AfterPhase(ph)]
    /\ devices' = RegistryAfterPhase(devices, prog[n].dev, ph)
    /\ Record(st, st', 0)
    /\ Clock(st, st', at[n] + Delay(ph))
    /\ UNCHANGED <<prog, loop>>

ConnectReturns(n) == PhaseReturns(n, "connecting")
ExecuteReturns(n) == PhaseReturns(n, "executing")
DisconnectReturns(n) == PhaseReturns(n, "disconnecting")

\* The await of phase ph of send_message n raises.
PhaseRaises(n, ph) ==
    /\ loop = "running"
    /\ Kind(n) = "send"
    /\ st[n] = ph
    /\ st' = IF AfterRaise(ph) \in {"failed", "done"}
             THEN Return(n, AfterRaise(ph), st)
             ELSE [st EXCEPT ![n] = AfterRaise(ph)]
    /\ Record(st, st', n)
    /\ Clock(st, st', at[n] + Delay(ph))
    /\ UNCHANGED <<prog, devices, loop>>

ConnectRaises(n) == PhaseRaises(n, "connecting")
ExecuteRaises(n) == PhaseRaises(n, "executing")
DisconnectRaises(n) == PhaseRaises(n, "disconnecting")

\* register_device n resumes after its sleep and stores the device.
RegisterCompletes(n) ==
    /\ loop = "running"
    /\ Kind(n) = "reg"
    /\ st[n] = "registering"
    /\ devices' = Store(devices, prog[n].dev)
    /\ st' = Return(n, "done", st)
    /\ Record(st, st', 0)
    /\ Clock(st, st', at[n] + Delay(st[n]))
    /\ UNCHANGED <<prog, loop>>

\* The sleep of register_device n raises: nothing is stored.
RegisterRaises(n) ==
    /\ loop = "running"
    /\ Kind(n) = "reg"
    /\ st[n] = "registering"
    /\ st' = Return(n, "failed", st)
    /\ Record(st, st', n)
    /\ Clock(st, st', at[n] + Delay(st[n]))
    /\ UNCHANGED <<prog, devices, loop>>

\* asyncio.gather of p has every result: run_parallel resumes and returns.
GatherReturns(p) ==
    /\ loop = "running"
    /\ Kind(p) = "par"
    /\ st[p] = "running"
    /\ GatherHasResults(p)
    /\ st' = Return(p, "done", st)
    /\ Record(st, st', 0)
    /\ Clock(st, st', GatherEndTime(p))
    /\ UNCHANGED <<prog, devices, loop>>

\* A child of asyncio.gather of p raised: gather passes the exception on at
\* once and run_parallel resumes with it.
GatherRaises(p) ==
    /\ loop = "running"
    /\ Kind(p) = "par"
    /\ st[p] = "running"
    /\ \E k \in KidSet(p) : st[k] = "failed"
    /\ st' = Return(p, "failed", GatherOnRaise(st, p))
    /\ Record(st, st', 0)
    /\ Clock(st, st', GatherRaiseTime(p))
    /\ UNCHANGED <<prog, devices, loop>>

\* asyncio.run: the main task has ended, so the loop cancels every task
\* that has not, and closes. Coroutines never awaited stay as they are.
Shutdown ==
    /\ loop = "running"
    /\ st[Root] \in Terminal
    /\ st' = [n \in Nodes |-> IF st[n] \in Terminal \cup {"idle"} THEN st[n] ELSE "cancelled"]
    /\ loop' = "closed"
    /\ UNCHANGED <<prog, devices, exc, trace, finished, gathered, ret, at>>

Next ==
    \/ \E n \in Nodes : TaskStart(n)
    \/ \E n \in Nodes : ConnectReturns(n)
    \/ \E n \in Nodes : ExecuteReturns(n)
    \/ \E n \in Nodes : DisconnectReturns(n)
    \/ \E n \in Nodes : ConnectRaises(n)
    \/ \E n \in Nodes : ExecuteRaises(n)
    \/ \E n \in Nodes : DisconnectRaises(n)
    \/ \E n \in Nodes : RegisterCompletes(n)
    \/ \E n \in Nodes : RegisterRaises(n)
    \/ \E p \in Nodes : GatherReturns(p)
    \/ \E p \in Nodes : GatherRaises(p)
    \/ Shutdown

Spec == Init /\ [][Next]_vars

\* The event loop runs every callback that is ready and every sleep ends, so
\* a step that can be taken is taken.
FairSpec == Spec /\ WF_vars(Next)

----------------------------------------------------------------------------
\* Properties

Last(t) == t[Len(t)]
IsPrefix(a, b) == Len(a) <= Len(b) /\ a = SubSeq(b, 1, Len(a))
Occurs(e, t) == \E i \in DOMAIN t : t[i] = e
MidDispatch == {"connecting", "executing", "disconnecting"}
SeqNodes == {n \in Nodes : Kind(n) = "seq"}
ParNodes == {n \in Nodes : Kind(n) = "par"}
SendNodes == {n \in Nodes : Kind(n) = "send"}

\* C1: in every run_sequence, a child has begun only if the child listed
\* before it has completed normally, so the children begin and complete in
\* the listed order, one at a time.
SequenceRunsChildrenInOrder ==
    \A s \in SeqNodes : \A i \in 1..(Len(Kids(s)) - 1) :
        LET a == Kids(s)[i]
            b == Kids(s)[i + 1]
        IN  (st[b] # "idle" \/ trace[b] # <<>>) =>
                /\ st[a] = "done"
                /\ \A j \in 1..i : st[Kids(s)[j]] = "done"

\* C1 witness: the third child of a sequence is executing after the first two
\* have completed.
SequenceThirdChildRunning ==
    \E s \in SeqNodes :
        /\ Len(Kids(s)) >= 3
        /\ st[Kids(s)[1]] = "done"
        /\ st[Kids(s)[2]] = "done"
        /\ st[Kids(s)[3]] = "executing"

IsMain == Kind(Root) = "main"
WakeUp == Kids(Root)[2]

\* C2: in the wake-up program of main, both commands of a sequence go to the
\* same device, and the second has entered connect only if the first has
\* left disconnect.
WakeUpSecondAfterFirstDisconnected ==
    IsMain =>
        \A s \in KidSet(WakeUp) :
            LET a == Kids(s)[1]
                b == Kids(s)[2]
            IN  /\ prog[a].dev = prog[b].dev
                /\ trace[b] # <<>> =>
                      /\ trace[a] # <<>>
                      /\ Last(trace[a]) = "disconnect_ok"

\* C2 witness: the second command of one device and the first command of
\* another device are both in the middle of a dispatch.
WakeUpTwoDevicesMidDispatch ==
    /\ IsMain
    /\ \E s1 \in KidSet(WakeUp), s2 \in KidSet(WakeUp) :
          /\ prog[Kids(s1)[2]].dev # prog[Kids(s2)[1]].dev
          /\ st[Kids(s1)[2]] \in MidDispatch
          /\ st[Kids(s2)[1]] \in MidDispatch

\* C3 (as stated): a failing child of run_sequence does not keep the later
\* children from running: once the loop has closed, every child listed after
\* a failed child has been started and has run to its end.
SequenceContinuesAfterFailedChild ==
    loop = "closed" =>
        \A s \in SeqNodes : \A j \in DOMAIN Kids(s) : \A i \in DOMAIN Kids(s) :
            (j < i /\ st[Kids(s)[j]] = "failed") => st[Kids(s)[i]] \in {"done", "failed"}

\* C3 (amended): a failing child of run_sequence aborts it: run_sequence
\* fails in the same step, and no child listed after the failed one is ever
\* started.
SequenceAbortsAtFailedChild ==
    \A s \in SeqNodes : \A j \in DOMAIN Kids(s) :
        st[Kids(s)[j]] = "failed" =>
            /\ st[s] = "failed"
            /\ \A i \in DOMAIN Kids(s) :
                  i > j => (st[Kids(s)[i]] = "idle" /\ trace[Kids(s)[i]] = <<>>)

\* C3 witness: the second of three children has failed and the loop has closed.
SequenceSecondChildFailed ==
    \E s \in SeqNodes :
        /\ Len(Kids(s)) >= 3
        /\ st[Kids(s)[1]] = "done"
        /\ st[Kids(s)[2]] = "failed"
        /\ loop = "closed"

\* C4 (as stated): when a child of run_parallel has failed, no sibling is
\* cancelled: every sibling runs the rest of its steps.
ParallelSiblingsNeverCancelled ==
    \A p \in ParNodes : \A a \in KidSet(p) : \A b \in KidSet(p) :
        (a # b /\ st[a] = "failed") => st[b] # "cancelled"

\* C4 (amended): a failing child of run_parallel does not itself cancel or
\* block its siblings: while the loop runs nothing is cancelled and a
\* suspended sibling of a failed child can take its next step; a sibling is
\* cancelled only by the shutdown of asyncio.run.
ParallelFailureLeavesSiblingsRunning ==
    /\ \A n \in Nodes : st[n] = "cancelled" => loop = "closed"
    /\ \A p \in ParNodes : \A a \in KidSet(p) : \A b \in KidSet(p) :
          (a # b /\ st[a] = "failed" /\ loop = "running" /\ Kind(b) = "send"
                 /\ st[b] \in MidDispatch)
              => ENABLED PhaseReturns(b, st[b])

\* C4 witness: a child of run_parallel completed after a sibling had failed.
ParallelSiblingCompletedAfterFailure ==
    \E p \in ParNodes : \E i \in DOMAIN finished[p] : \E j \in DOMAIN finished[p] :
        /\ i < j
        /\ st[finished[p][i]] = "failed"
        /\ st[finished[p][j]] = "done"

\* C5 (as stated): run_parallel has ended, by result or by failure, only if
\* every one of its children has ended.
ParallelEndsAfterAllChildren ==
    \A p \in ParNodes :
        st[p] \in {"done", "failed"} => \A k \in KidSet(p) : st[k] \in Terminal

\* C5 (amended): run_parallel returns normally only when every child has
\* completed; it fails only when a child has failed, and then without
\* waiting for the siblings.
ParallelReturnsAfterAllChildren ==
    \A p \in ParNodes :
        /\ st[p] = "done" => \A k \in KidSet(p) : st[k] = "done"
        /\ st[p] = "failed" => \E k \in KidSet(p) : st[k] = "failed"

\* C5 witness: run_parallel has failed while a child is still in the middle
\* of its dispatch.
ParallelFailedWithStraggler ==
    \E p \in ParNodes :
        /\ st[p] = "failed"
        /\ \E k \in KidSet(p) : st[k] \in MidDispatch

\* C6 (as stated): run_parallel over N children returns the N outcomes of
\* its children in input order.
ParallelReturnsOutcomesInOrder ==
    \A p \in ParNodes :
        st[p] = "done" => ret[p] = ListVal([i \in DOMAIN Kids(p) |-> ret[Kids(p)[i]]])

\* C6 (amended): run_parallel over N children returns None, whatever the
\* order its children completed in; asyncio.gather holds N results, one per
\* child and each None, which run_parallel drops.
ParallelReturnsNone ==
    \A p \in ParNodes :
        st[p] = "done" =>
            /\ ret[p] = NoneVal
            /\ gathered[p] = ListVal([i \in DOMAIN Kids(p) |-> NoneVal])
            /\ Len(finished[p]) = Len(Kids(p))

\* C6 witness: run_parallel has returned after its three children completed in
\* the reverse of the input order.
ParallelCompletedInReverse ==
    \E p \in ParNodes :
        /\ st[p] = "done"
        /\ Len(Kids(p)) = 3
        /\ finished[p] = <<Kids(p)[3], Kids(p)[2], Kids(p)[1]>>

\* C7 (as stated): a failure of a dispatch never reaches the combinators as
\* an exception: no run_sequence, run_parallel or main ends by failure.
DispatchFailureNeverThrown ==
    \A n \in Nodes : Kind(n) \in {"seq", "par", "main"} => st[n] # "failed"

\* C7 (amended): a failure of a dispatch is not captured: the exception
\* leaves send_message, which returns no value; the run_sequence awaiting it
\* fails in the same step, and no combinator awaiting it completes normally.
DispatchFailurePropagates ==
    \A n \in SendNodes :
        exc[n] # "none" =>
            /\ st[n] = "failed"
            /\ ret[n] = Unset
            /\ HasParent(n) =>
                  /\ st[Parent(n)] # "done"
                  /\ Kind(Parent(n)) = "seq" => st[Parent(n)] = "failed"

\* C7 witness: a dispatch failed inside a run_sequence inside a run_parallel,
\* and the run_parallel has failed.
DispatchFailureReachedParallel ==
    \E n \in SendNodes :
        /\ exc[n] # "none"
        /\ HasParent(n)
        /\ Kind(Parent(n)) = "seq"
        /\ HasParent(Parent(n))
        /\ Kind(Parent(Parent(n))) = "par"
        /\ st[Parent(Parent(n))] = "failed"

FullDispatch ==
    <<"connect", "connect_ok", "execute", "execute_ok", "disconnect", "disconnect_ok">>

\* C8: every send_message goes through connect, execute, disconnect in this
\* order, each at most once, a phase beginning only when the one before it
\* has returned; a raise ends it.
DispatchPhasesInOrder ==
    \A n \in SendNodes :
        \/ IsPrefix(trace[n], FullDispatch)
        \/ /\ Len(trace[n]) >= 2
           /\ Len(trace[n]) % 2 = 0
           /\ IsPrefix(SubSeq(trace[n], 1, Len(trace[n]) - 1), FullDispatch)
           /\ Last(trace[n]) = trace[n][Len(trace[n]) - 1] \o "_raised"

\* C8 witness: a send_message has gone through all three phases.
DispatchCompleted ==
    \E n \in SendNodes : trace[n] = FullDispatch /\ st[n] = "done"

ConnectFailureSkipsExecuteAndDisconnect ==
    \A n \in SendNodes :
        exc[n] = "connect" =>
            /\ st[n] = "failed"
            /\ trace[n] = <<"connect", "connect_raised">>
            /\ ~Occurs("execute", trace[n])
            /\ ~Occurs("disconnect", trace[n])

\* C10 witness: the connect of a send_message raised and the loop has closed.
ConnectFailed ==
    \E n \in SendNodes : exc[n] = "connect" /\ loop = "closed"

Registered(d) == Name(d) \in DOMAIN devices

\* C11 (as stated): a send_message to a device that is not in the registry
\* performs no connect, execute or disconnect step.
UnregisteredDispatchDoesNothing ==
    \A n \in SendNodes : ~Registered(prog[n].dev) => trace[n] = <<>>

\* C11 (amended): send_message never reads the registry: every started
\* dispatch, to a registered device or not, enters connect first, and it
\* fails only when one of its phases raised.
DispatchIgnoresRegistry ==
    \A n \in SendNodes :
        st[n] \in MidDispatch \cup {"done", "failed"} =>
            /\ trace[n] # <<>>
            /\ trace[n][1] = "connect"
            /\ st[n] = "failed" => exc[n] \in {"connect", "execute", "disconnect"}

\* C11 witness: a dispatch to a device that was never registered has gone
\* through all three phases.
UnregisteredDispatchCompleted ==
    \E n \in SendNodes :
        /\ ~Registered(prog[n].dev)
        /\ st[n] = "done"
        /\ trace[n] = FullDispatch
        /\ loop = "closed"

RegNodes == {n \in Nodes : Kind(n) = "reg"}

\* The devices whose register_device has returned.
DoneDevices == {prog[n].dev : n \in {m \in RegNodes : st[m] = "done"}}

\* C12 (as stated): whatever distinct devices have been registered, the
\* registry holds one entry per registered device and resolves each
\* registered device to itself.
RegistrationsAllKept ==
    /\ \A d \in DoneDevices : Registered(d) /\ devices[Name(d)] = d
    /\ Cardinality(DOMAIN devices) = Cardinality(DoneDevices)

\* C12 (amended): the registry holds one entry per name registered; a
\* registered device whose name no other registered device bears resolves
\* to itself, and devices that share a name share one entry, which holds
\* one of them.
RegistrationsKeptByName ==
    /\ DOMAIN devices = {Name(d) : d \in DoneDevices}
    /\ \A d \in DoneDevices :
          /\ Registered(d)
          /\ devices[Name(d)] \in {e \in DoneDevices : Name(e) = Name(d)}
          /\ (\A e \in DoneDevices : Name(e) = Name(d) => e = d) => devices[Name(d)] = d

\* C12 witness: two devices with different names were registered by one
\* run_parallel, the second completing first.
TwoRegistrationsCompletedInReverse ==
    \E p \in ParNodes :
        /\ Len(Kids(p)) = 2
        /\ \A k \in KidSet(p) : Kind(k) = "reg" /\ st[k] = "done"
        /\ Name(prog[Kids(p)[1]].dev) # Name(prog[Kids(p)[2]].dev)
        /\ finished[p] = <<Kids(p)[2], Kids(p)[1]>>
        /\ st[p] = "done"

\* C15 (as stated): register_device of a device with an empty name fails and
\* stores nothing.
EmptyNameRejected ==
    \A n \in RegNodes :
        Name(prog[n].dev) = "" =>
            /\ st[n] \notin {"registering", "done"}
            /\ "" \notin DOMAIN devices

\* C15 (amended): register_device checks nothing: every started registration,
\* of a device with an empty name too, goes to its sleep, fails only if that
\* raises, and once it has returned its device's name is in the registry.
RegistrationAcceptsAnyName ==
    \A n \in RegNodes :
        /\ st[n] \in {"registering", "done", "failed"} =>
              /\ trace[n] # <<>>
              /\ trace[n][1] = "register"
        /\ st[n] = "failed" => exc[n] = "register"
        /\ st[n] = "done" => Registered(prog[n].dev)

\* C15 witness: a device with an empty name and another device are both in
\* the registry.
EmptyNameRegistered ==
    /\ "" \in DOMAIN devices
    /\ Cardinality(DOMAIN devices) = 2
    /\ loop = "closed"

RegistrationPhase == Kids(Root)[1]
SleepPhase == Kids(Root)[3]
WakeUpSends == UNION {KidSet(s) : s \in KidSet(WakeUp)}
SleepSends == KidSet(SleepPhase)

\* C13: in a run of main, no device has two send_message calls in the
\* middle of their dispatch at the same time.
OneDispatchPerDevice ==
    IsMain =>
        \A n \in SendNodes : \A m \in SendNodes :
            (n # m /\ prog[n].dev = prog[m].dev) =>
                ~(st[n] \in MidDispatch /\ st[m] \in MidDispatch)

\* C13 witness: every device of the wake-up program has completed its first
\* command and is in the middle of its second.
AllDevicesInSecondCommand ==
    /\ IsMain
    /\ \A s \in KidSet(WakeUp) :
          /\ st[Kids(s)[1]] = "done"
          /\ st[Kids(s)[2]] \in MidDispatch

\* C18: in main, a send_message has started only when all three
\* register_device calls have returned and stored their devices, and a
\* send_message of the sleep program has started only when every dispatch of
\* the wake-up program has completed.
PhaseBarriers ==
    IsMain =>
        /\ \A n \in SendNodes :
              trace[n] # <<>> =>
                  \A r \in KidSet(RegistrationPhase) :
                      /\ st[r] = "done"
                      /\ Registered(prog[r].dev)
                      /\ devices[Name(prog[r].dev)] = prog[r].dev
        /\ \A n \in SleepSends :
              trace[n] # <<>> =>
                  \A w \in WakeUpSends : st[w] = "done" /\ trace[w] = FullDispatch

\* C18 witness: a send_message of the sleep program is executing.
SleepProgramExecuting ==
    /\ IsMain
    /\ \E n \in SleepSends : st[n] = "executing"

\* C14: under fair scheduling every run ends: the coroutine handed to
\* asyncio.run completes or fails and the loop closes with no coroutine
\* left waiting, whatever children succeed or fail.
EveryRunEnds ==
    <>(/\ loop = "closed"
       /\ st[Root] \in {"done", "failed"}
       /\ \A n \in Nodes : st[n] \in Terminal \cup {"idle"})

\* C14 witness: a run_parallel of at least two children, all of which failed,
\* has ended and the loop has closed.
AllChildrenFailedAndEnded ==
    \E p \in ParNodes :
        /\ Len(Kids(p)) >= 2
        /\ \A k \in KidSet(p) : st[k] = "failed"
        /\ st[p] = "failed"
        /\ st[Root] = "failed"
        /\ loop = "closed"

\* C17: once run_parallel runs, every one of its children is a task that can
\* start whatever its siblings have done: none waits for a sibling.
ParallelStartsAllChildren ==
    \A p \in ParNodes :
        st[p] \in {"running", "done", "failed"} =>
            \A k \in KidSet(p) :
                /\ st[k] # "idle"
                /\ (st[k] = "scheduled" /\ loop = "running") => ENABLED TaskStart(k)

\* C17 witness: the three registrations of main have all started and none
\* has completed.
AllRegistrationsInProgress ==
    /\ IsMain
    /\ Len(Kids(RegistrationPhase)) = 3
    /\ \A k \in KidSet(RegistrationPhase) : st[k] = "registering"

MainNames == {Name(DeviceObjects[i]) : i \in DOMAIN DeviceObjects}

\* C19: a step changes the registry only if it is the return of a
\* register_device, which adds or overwrites the entry of its own device's
\* name and nothing else; the registered names only grow; and in main, once
\* the registration phase has returned, the registry holds the three device
\* names and no longer changes.
RegistryFrame ==
    [][ /\ devices' # devices =>
              \E n \in RegNodes :
                  /\ st[n] = "registering"
                  /\ st'[n] = "done"
                  /\ DOMAIN devices' = DOMAIN devices \cup {Name(prog[n].dev)}
                  /\ devices'[Name(prog[n].dev)] = prog[n].dev
                  /\ \A k \in DOMAIN devices \ {Name(prog[n].dev)} : devices'[k] = devices[k]
        /\ DOMAIN devices \subseteq DOMAIN devices'
        /\ (IsMain /\ st[RegistrationPhase] = "done") =>
              /\ DOMAIN devices = MainNames
              /\ devices' = devices ]_vars

\* C19 witness: main has run to its end and the registry holds the three
\* device names.
MainEndedWithRegistry ==
    /\ IsMain
    /\ st[Root] = "done"
    /\ loop = "closed"
    /\ DOMAIN devices = MainNames

\* C16: in main, in tenths of a second of sleep, the registration phase
\* takes 10, the wake-up program 14 (the longest of its three sequences of
\* two dispatches of 7 each, not the 42 of all six dispatches) and the sleep
\* program 7.
PhaseTimes ==
    IsMain =>
        /\ st[RegistrationPhase] = "done" => at[RegistrationPhase] = 10
        /\ st[WakeUp] = "done" =>
              /\ at[WakeUp] - at[RegistrationPhase] = 14
              /\ \A s \in KidSet(WakeUp) : at[s] - at[RegistrationPhase] = 14
              /\ \A n \in WakeUpSends : st[n] = "done" /\ Len(trace[n]) = 6
        /\ st[SleepPhase] = "done" => at[SleepPhase] - at[WakeUp] = 7
        /\ st[Root] = "done" => at[Root] = 31

\* C16 witness: main has run to its end, all eleven coroutines of devices done.
MainEndedOnTime ==
    /\ IsMain
    /\ st[Root] = "done"
    /\ at[Root] = 31
    /\ \A n \in SendNodes \cup RegNodes : st[n] = "done"

====
